---- MODULE Spec2Model ----
(***************************************************************************)
(* vinylla: the image-to-character-art engine of src/img_to_ascii.rs and   *)
(* the application of src/app.rs that displays it.                         *)
(*                                                                         *)
(* The model follows one AsciiArt<WIDTH, HEIGHT> value through its life:   *)
(* a decoded raster arrives and from_image samples it, or blank_art makes  *)
(* a placeholder, or a persisted sequence is read and deserialized; a grid *)
(* in memory is serialized, and what was serialized is deserialized again. *)
(* SpecRender prints a grid (print, print_at), SpecTracklist prints a      *)
(* tracklist (print_tracklist of src/app.rs) and SpecApp is the run loop   *)
(* of src/app.rs with its command mode: selection, addition, removal and   *)
(* the terminal's raw mode.                                                *)
(*                                                                         *)
(* Rust arrays are indexed from 0 and TLA+ sequences from 1: data[y][x] of *)
(* the source is data[y + 1][x + 1] here.  An Option is a sequence of      *)
(* length 0 (None) or 1 (Some).  A char is its Unicode scalar value.       *)
(***************************************************************************)
EXTENDS Integers, Sequences, FiniteSets, TLC

VARIABLES
    WIDTH,          \* const generic WIDTH of the AsciiArt under consideration
    HEIGHT,         \* const generic HEIGHT
    image,          \* Option: the decoded raster handed to from_image
    art,            \* Option: the AsciiArt value in memory
    wire,           \* Option: the persisted sequence (serializer output / file)
    saved,          \* Option: the AsciiArt that Serialize wrote to wire
    op,             \* the operation that produced this state
    result,         \* "none", "ok", "err" (Err returned) or "panic" (fault)
    pixels_read,    \* number of get_pixel calls that returned in from_image
    surface,        \* the commands written to stdout, in order
    position,       \* Option: the (column, row) anchor given to print_at
    tracklist,      \* Record.tracklist given to print_tracklist
    collection,     \* App.collection: the keys (artist, title) of the HashMap
    sorted_titles,  \* App.sorted_titles
    selected,       \* App.selected
    user_data,      \* App.user_data is Some
    raw_mode,       \* the terminal is in raw mode
    pc,             \* where the application is in run / command_mode
    debug_build     \* the build panics on integer overflow (else it wraps)

artVars == <<WIDTH, HEIGHT, image, art, wire, saved, pixels_read>>
termVars == <<surface, position, tracklist>>
appVars ==
    <<collection, sorted_titles, selected, user_data, raw_mode, pc, debug_build>>

vars == <<artVars, op, result, termVars, appVars>>

----------------------------------------------------------------------------
(* Bounds of the model *)

MaxW == 2           \* WIDTH ranges over 1..MaxW
MaxH == 2           \* HEIGHT ranges over 1..MaxH
MaxPixels == 9      \* source rasters have at most this many pixels
MaxExtraRows == 2   \* a read file holds at most HEIGHT + MaxExtraRows rows
MaxRun == 7         \* consecutive tracks of one side in a tracklist
MaxSelected == 3    \* Down is not pressed once selected has reached this

(* Program constants *)

Space == 32             \* ' '
FullBlock == 9608       \* U+2588, the solid block glyph
Samples == 9            \* the divisor of the average
RecordWidth == 45       \* Record.image : AsciiArt<45, 20>
RecordHeight == 20
UsizeMax == 2147483647  \* stands for usize::MAX, the value 0 - 1 wraps to;
                        \* the largest integer TLC represents, and like
                        \* usize::MAX as u32 not below any raster dimension
U16Max == 65535         \* u16::MAX, the largest terminal coordinate
NewLine == 10           \* '\n'
TracklistRows == 15     \* print_tracklist draws while row < 15
TracklistCol == 45      \* the column of the tracklist box
TracklistStart == 20    \* print_tracklist(20, record)

Some(x) == <<x>>
None == <<>>

----------------------------------------------------------------------------
(* Textel and AsciiArt *)

Black == <<0, 0, 0>>
White == <<255, 255, 255>>

Textel(c, color) == [char |-> c, color |-> color]

blank_art_wrong_color(W, H) ==
    [data |-> [y \in 1..H |-> [x \in 1..W |-> Textel(Space, <<0, 0, 1>>)]]]

blank_art_transposed(W, H) ==
    [data |-> [y \in 1..W |-> [x \in 1..H |-> Textel(Space, Black)]]]

\* blank_art::<WIDTH, HEIGHT>()
blank_art(W, H) ==
    [data |-> [y \in 1..H |-> [x \in 1..W |-> Textel(Space, Black)]]]

\* The type AsciiArt<W, H>: data : [[Textel; W]; H]
HasShape(a, W, H) ==
    /\ Len(a.data) = H
    /\ \A y \in 1..H : Len(a.data[y]) = W

----------------------------------------------------------------------------
(* The source raster: ImageBuffer<Rgb<u8>, Vec<u8>> *)

Raster(w, h, pix) == [width |-> w, height |-> h, pix |-> pix]

InBounds(img, px, py) == px < img.width /\ py < img.height

\* image.get_pixel(x, y) of a row-major buffer; panics when (x, y) is out of
\* bounds
get_pixel(img, px, py) == img.pix[py + 1][px + 1]

----------------------------------------------------------------------------
(* The sampler *)

\* r - 1 on usize in a build without overflow checks: 0 - 1 wraps
wrapping_sub_one(r) == IF r >= 1 THEN r - 1 ELSE UsizeMax

sample_offsets_mid_half(pix_tex_ratio) ==
    LET lx == wrapping_sub_one(pix_tex_ratio[1])
        ly == wrapping_sub_one(pix_tex_ratio[2])
        mx == pix_tex_ratio[1] \div 2
        my == pix_tex_ratio[2] \div 2
    IN  << <<0, 0>>,  <<mx, 0>>,  <<lx, 0>>,
           <<0, my>>, <<mx, my>>, <<lx, my>>,
           <<0, ly>>, <<mx, ly>>, <<lx, ly>> >>

\* let offsets: [[(usize, usize); 3]; 3], flattened row by row, which is the
\* order in which offsets.map(|ls| ls.map(..)) visits it
sample_offsets(pix_tex_ratio) ==
    LET lx == wrapping_sub_one(pix_tex_ratio[1])
        ly == wrapping_sub_one(pix_tex_ratio[2])
        mx == lx \div 2
        my == ly \div 2
    IN  << <<0, 0>>,  <<mx, 0>>,  <<lx, 0>>,
           <<0, my>>, <<mx, my>>, <<lx, my>>,
           <<0, ly>>, <<mx, ly>>, <<lx, ly>> >>

sample_coords_next_cell(tex_x, tex_y, pix_tex_ratio) ==
    LET bx == (tex_x + 1) * pix_tex_ratio[1]
        by == tex_y * pix_tex_ratio[2]
        o == sample_offsets(pix_tex_ratio)
    IN  [k \in 1..9 |-> <<bx + o[k][1], by + o[k][2]>>]

\* (base.0 + dx, base.1 + dy) for each of the 9 offsets, where
\* base = (tex_x * pix_tex_ratio.0, tex_y * pix_tex_ratio.1)
sample_coords(tex_x, tex_y, pix_tex_ratio) ==
    LET bx == tex_x * pix_tex_ratio[1]
        by == tex_y * pix_tex_ratio[2]
        o == sample_offsets(pix_tex_ratio)
    IN  << <<bx + o[1][1], by + o[1][2]>>, <<bx + o[2][1], by + o[2][2]>>,
           <<bx + o[3][1], by + o[3][2]>>, <<bx + o[4][1], by + o[4][2]>>,
           <<bx + o[5][1], by + o[5][2]>>, <<bx + o[6][1], by + o[6][2]>>,
           <<bx + o[7][1], by + o[7][2]>>, <<bx + o[8][1], by + o[8][2]>>,
           <<bx + o[9][1], by + o[9][2]>> >>

\* for row in samples.iter() { for color in row.iter() {
\*     sum[c] += color[c] as u32 } }: at most 9 * 255, far from the u32 range
sum_channel(samples, c) ==
    samples[1][c] + samples[2][c] + samples[3][c] + samples[4][c] + samples[5][c]
        + samples[6][c] + samples[7][c] + samples[8][c] + samples[9][c]

\* let samples = offsets.map(|ls| ls.map(|(dx, dy)| image.get_pixel(..)))
get_samples(img, coords) ==
    [k \in 1..9 |-> get_pixel(img, coords[k][1], coords[k][2])]

Sampled(ok, nread, textel) == [ok |-> ok, nread |-> nread, textel |-> textel]

sample_at_div8(tex_x, tex_y, pix_tex_ratio, img, overflow_checks) ==
    LET coords == sample_coords(tex_x, tex_y, pix_tex_ratio)
        samples == get_samples(img, coords)
        color == [c \in 1..3 |-> (sum_channel(samples, c) \div 8) % 256]
    IN  IF \E k \in 1..9 : ~InBounds(img, coords[k][1], coords[k][2])
        THEN Sampled(FALSE, 0, Textel(Space, Black))
        ELSE Sampled(TRUE, 9, Textel(FullBlock, color))

sample_at_swapped_base(tex_x, tex_y, pix_tex_ratio, img, overflow_checks) ==
    LET coords == sample_coords(tex_y, tex_x, pix_tex_ratio)
        samples == get_samples(img, coords)
        color == [c \in 1..3 |-> (sum_channel(samples, c) \div Samples) % 256]
    IN  IF \E k \in 1..9 : ~InBounds(img, coords[k][1], coords[k][2])
        THEN Sampled(FALSE, 0, Textel(Space, Black))
        ELSE Sampled(TRUE, 9, Textel(FullBlock, color))

\* sample_at(tex_x, tex_y, pix_tex_ratio, &image), in a build with or without
\* overflow checks.  ok = FALSE is a panic: "attempt to subtract with
\* overflow" while offsets is built (overflow checks on), or get_pixel out of
\* bounds at the first bad coordinate, after nread pixels were read.
sample_at(tex_x, tex_y, pix_tex_ratio, img, overflow_checks) ==
    LET coords == sample_coords(tex_x, tex_y, pix_tex_ratio)
        bad == {k \in 1..9 : ~InBounds(img, coords[k][1], coords[k][2])}
        first_bad == CHOOSE k \in bad : \A j \in bad : k <= j
        samples == get_samples(img, coords)
        color == [c \in 1..3 |-> (sum_channel(samples, c) \div Samples) % 256]
    IN  IF overflow_checks /\ (pix_tex_ratio[1] = 0 \/ pix_tex_ratio[2] = 0)
        THEN Sampled(FALSE, 0, Textel(Space, Black))
        ELSE IF bad # {}
        THEN Sampled(FALSE, first_bad - 1, Textel(Space, Black))
        ELSE Sampled(TRUE, 9, Textel(FullBlock, color))

pix_tex_ratio_swapped(img, W, H) == <<img.width \div H, img.height \div W>>

\* let pix_tex_ratio = (img_w as usize / WIDTH, img_h as usize / HEIGHT)
pix_tex_ratio_of(img, W, H) == <<img.width \div W, img.height \div H>>

Converted(status, a, nread) == [status |-> status, art |-> a, nread |-> nread]

\* AsciiArt::<WIDTH, HEIGHT>::from_image(image):
\*   let mut art = blank_art();
\*   for y in 0..HEIGHT { for x in 0..WIDTH { art.data[y][x] = sample_at(..) } }
\*   Ok(art)
\* The loop visits cell idx = y * WIDTH + x in increasing idx and stops at
\* the first sample_at that panics; every cell before it read 9 pixels.
from_image(img, W, H, overflow_checks) ==
    LET ratio == pix_tex_ratio_of(img, W, H)
        panics == {idx \in 0..(W * H - 1) :
                      ~sample_at(idx % W, idx \div W, ratio, img, overflow_checks).ok}
        first == CHOOSE idx \in panics : \A j \in panics : idx <= j
    IN  IF panics = {}
        THEN Converted("ok",
                 Some([blank_art(W, H) EXCEPT !.data =
                         [y \in 1..H |-> [x \in 1..W |->
                             sample_at(x - 1, y - 1, ratio, img,
                                       overflow_checks).textel]]]),
                 9 * W * H)
        ELSE Converted("panic", None,
                 9 * first + sample_at(first % W, first \div W, ratio, img,
                                       overflow_checks).nread)

----------------------------------------------------------------------------
(* The codec.  The persisted form is what serde_json holds: a sequence of  *)
(* RowWrapper objects {row: [cell, ..]}, a cell being {char: a string of   *)
(* one character, color: [u8, u8, u8]}.                                    *)

ser_textel_no_char(t) == [char |-> <<Space>>, color |-> t.color]

\* #[derive(Serialize)] struct Textel { char: char, color: [u8; 3] }
ser_textel(t) == [char |-> <<t.char>>, color |-> t.color]

serialize_columns(a) ==
    [i \in 1..Len(a.data[1]) |->
        [row |-> [j \in 1..Len(a.data) |-> ser_textel(a.data[j][i])]]]

\* impl Serialize for AsciiArt: one RowWrapper { row } per row of self.data
serialize(a) ==
    [i \in 1..Len(a.data) |->
        [row |-> [j \in 1..Len(a.data[i]) |-> ser_textel(a.data[i][j])]]]

Parsed(ok, value) == [ok |-> ok, value |-> value]

\* #[derive(Deserialize)] struct Textel: a char is a string of exactly one
\* character, a [u8; 3] a sequence of exactly three numbers below 256
de_textel(v) ==
    IF /\ Len(v.char) = 1
       /\ Len(v.color) = 3
       /\ \A c \in 1..3 : v.color[c] \in 0..255
    THEN Parsed(TRUE, Textel(v.char[1], v.color))
    ELSE Parsed(FALSE, Textel(Space, Black))

\* seq.next_element::<RowWrapper<WIDTH>>() on an element that is present:
\* serde_arrays reads exactly WIDTH cells and reports invalid_length for a
\* shorter or longer row
next_element(v, W) ==
    IF Len(v.row) = W /\ \A j \in 1..W : de_textel(v.row[j]).ok
    THEN Parsed(TRUE, [j \in 1..W |-> de_textel(v.row[j]).value])
    ELSE Parsed(FALSE, <<>>)

Decoded(status, a) == [status |-> status, art |-> a]

RECURSIVE visit_seq_loop(_, _, _, _, _)
\* loop { match seq.next_element()? { Some(row) => { art.data[i] = row.row;
\* i += 1 } None => break } }; art.data[i] panics when i >= HEIGHT
visit_seq_loop(input, a, i, W, H) ==
    IF i >= Len(input) THEN Decoded("ok", Some(a))
    ELSE LET row == next_element(input[i + 1], W)
         IN  IF ~row.ok THEN Decoded("err", None)
             ELSE IF i >= H THEN Decoded("panic", None)
             ELSE visit_seq_loop(input, [a EXCEPT !.data[i + 1] = row.value],
                                 i + 1, W, H)

visit_seq_index_from_one(input, W, H) ==
    visit_seq_loop(<<[row |-> [j \in 1..W |-> ser_textel(Textel(Space, Black))]]>>
                       \o input,
                   blank_art(W, H), 0, W, H)

\* AsciiArtVisitor::visit_seq
visit_seq(input, W, H) == visit_seq_loop(input, blank_art(W, H), 0, W, H)

----------------------------------------------------------------------------
(* The renderer.  What reaches stdout is a sequence of crossterm commands;  *)
(* a command is its name and its numeric payload: the three colour bytes    *)
(* of SetForegroundColor, the character of Print, the (column, row) of      *)
(* MoveTo.  SetBackgroundColor is always given Color::White.                *)

Command(cmd, arg) == [cmd |-> cmd, arg |-> arg]

\* the outcome of a render pass: the commands it issues until it returns
\* or panics
Rendered(status, out) == [status |-> status, out |-> out]

row_cmds_glyph_first(row) ==
    [k \in 1..(2 * Len(row)) |->
        IF k % 2 = 0
        THEN Command("SetForegroundColor", row[k \div 2].color)
        ELSE Command("Print", <<row[(k + 1) \div 2].char>>)]

\* for textle in row.iter(): queue!(SetForegroundColor(color), Print(char))
row_cmds(row) ==
    [k \in 1..(2 * Len(row)) |->
        IF k % 2 = 1
        THEN Command("SetForegroundColor", row[(k + 1) \div 2].color)
        ELSE Command("Print", <<row[k \div 2].char>>)]

\* for row in self.data.iter(), from row i + 1 of the sequence on
RECURSIVE print_rows(_, _)
print_rows(data, i) ==
    IF i >= Len(data) THEN <<>>
    ELSE row_cmds(data[i + 1])
            \o <<Command("ResetColor", <<>>), Command("Print", <<NewLine>>)>>
            \o print_rows(data, i + 1)

\* AsciiArt::print
print(a) ==
    Rendered("ok", <<Command("SetBackgroundColor", <<>>)>> \o print_rows(a.data, 0))

\* position.1 + i as u16: the cast truncates, the u16 addition panics on
\* overflow in a build with overflow checks and wraps in one without
RECURSIVE print_at_rows(_, _, _, _)
print_at_rows(data, i, pos, checks) ==
    IF i >= Len(data) THEN Rendered("ok", <<>>)
    ELSE LET sum == pos[2] + (i % (U16Max + 1))
         IN  IF sum > U16Max /\ checks THEN Rendered("panic", <<>>)
             ELSE LET rest == print_at_rows(data, i + 1, pos, checks)
                  IN  Rendered(rest.status,
                               <<Command("MoveTo", <<pos[1], sum % (U16Max + 1)>>)>>
                                   \o row_cmds(data[i + 1])
                                   \o <<Command("ResetColor", <<>>)>>
                                   \o rest.out)

\* AsciiArt::print_at
print_at(a, pos, checks) ==
    LET rows == print_at_rows(a.data, 0, pos, checks)
    IN  Rendered(rows.status, <<Command("SetBackgroundColor", <<>>)>> \o rows.out)

----------------------------------------------------------------------------
(* The tracklist printer of src/app.rs.  A Track is its position string     *)
(* (a sequence of characters: the side, then the number on the side); the   *)
(* title and duration only make up the text of a line and are left out.     *)

Track(pos) == [position |-> pos]

\* while track < record.tracklist.len() && row < 15 { .. }
RECURSIVE print_tracklist_loop(_, _, _, _, _)
print_tracklist_loop(tl, start_row, row, sides, track) ==
    IF ~(track < Len(tl) /\ row < TracklistRows) THEN Rendered("ok", <<>>)
    ELSE
      LET move == Command("MoveTo", <<TracklistCol, start_row + row>>)
          pos == tl[track + 1].position
      IN  IF Len(pos) = 0
          THEN \* position.get(0..1) is None: unwrap panics
               Rendered("panic", <<move>>)
          ELSE IF \A k \in 1..Len(sides) : sides[k] # pos[1]
          THEN \* a new side: a blank row unless it is the first, then "Side X:"
               LET row2 == IF Len(sides) # 0 THEN row + 1 ELSE row
                   move2 == IF Len(sides) # 0
                            THEN <<Command("MoveTo", <<TracklistCol, start_row + row2>>)>>
                            ELSE <<>>
                   rest == print_tracklist_loop(tl, start_row, row2 + 1,
                                                Append(sides, pos[1]), track)
               IN  Rendered(rest.status,
                            <<move>> \o move2 \o <<Command("Print", <<pos[1]>>)>>
                                \o rest.out)
          ELSE \* a track of a side already announced
               LET rest == print_tracklist_loop(tl, start_row, row + 1, sides,
                                                track + 1)
               IN  Rendered(rest.status,
                            <<move, Command("Print", pos)>> \o rest.out)

\* fn print_tracklist(start_row: u16, record: &Record)
print_tracklist(start_row, tl) == print_tracklist_loop(tl, start_row, 0, <<>>, 0)

----------------------------------------------------------------------------
(* The application of src/app.rs.  A key of the collection is the pair      *)
(* (artist, title), compared as Rust compares tuples: by artist, then by    *)
(* title.  The collection is the set of its keys: the Record a key maps to  *)
(* plays no part in the selection.                                          *)

\* (String, String) ordering: a > b
key_gt(a, b) == a[1] > b[1] \/ (a[1] = b[1] /\ a[2] > b[2])

key_lt(a, b) == key_gt(b, a)

\* Vec::sort
sort(v) == SortSeq(v, key_lt)

\* collection.keys().collect(), in whatever order the HashMap yields, sorted
sorted_keys(S) ==
    sort(CHOOSE v \in [1..Cardinality(S) -> S] :
            \A i, j \in 1..Cardinality(S) : i # j => v[i] # v[j])

\* Vec::remove(index), index counted from 0
remove(v, index) ==
    [k \in 1..(Len(v) - 1) |-> IF k <= index THEN v[k] ELSE v[k + 1]]

\* usize::min
min(a, b) == IF a <= b THEN a ELSE b

\* usize::saturating_sub(1)
saturating_sub_one(a) == IF a >= 1 THEN a - 1 ELSE 0

----------------------------------------------------------------------------
(* Inputs *)

PixelColors == {Black, <<255, 128, 7>>}

\* every raster of at most MaxPixels pixels over PixelColors
ImageSizes == {s \in (1..MaxPixels) \X (1..MaxPixels) : s[1] * s[2] <= MaxPixels}

Images ==
    UNION {{Raster(s[1], s[2], pix) :
                pix \in [1..s[2] -> [1..s[1] -> PixelColors]]} :
           s \in ImageSizes}

\* a bw x bh checkerboard starting with c0 at the top left
Checkerboard(w, h, bw, bh, c0, c1) ==
    Raster(w, h, [y \in 1..h |-> [x \in 1..w |->
                     IF (((x - 1) \div bw) + ((y - 1) \div bh)) % 2 = 0
                     THEN c0 ELSE c1]])

ScenarioColors == {Black, White, <<255, 128, 7>>}

\* the 90 x 60 rasters of the example scenario: ratio 2 on x and 3 on y
ScenarioImages ==
    {Checkerboard(2 * RecordWidth, 3 * RecordHeight, bw, bh, c0, c1) :
        bw \in 1..3, bh \in 1..3,
        c0 \in ScenarioColors, c1 \in ScenarioColors}

FileCells == {ser_textel(Textel(Space, Black)), ser_textel(Textel(120, <<1, 2, 3>>))}

\* the cell contents of a file: a 2 x 2 tile of cells repeated over it
Tiles == [(0..1) \X (0..1) -> FileCells]

FileRow(r, width, tile) ==
    [row |-> [c \in 1..width |-> tile[<<(r - 1) % 2, (c - 1) % 2>>]]]

\* persisted sequences of up to H + MaxExtraRows rows of W - 1, W or W + 1 cells
FileInputs(W, H) ==
    UNION {{[r \in 1..n |-> FileRow(r, widths[r], tile)] :
                widths \in [1..n -> {W - 1, W, W + 1}], tile \in Tiles} :
           n \in 0..(H + MaxExtraRows)}

\* the cells of the grids handed to the renderer
RenderCells == {Textel(120, <<1, 2, 3>>), Textel(FullBlock, <<255, 128, 7>>)}

\* every AsciiArt<W, H> over RenderCells
Grids(W, H) == {[data |-> d] : d \in [1..H -> [1..W -> RenderCells]]}

\* the anchors given to print_at: the one the application uses (82, 8), and
\* rows at the top of the u16 range
AnchorCols == {0, 82}
AnchorRows == {8, U16Max - 1, U16Max}

\* the sides of the tracklists, as the first character of a position ("A"
\* is 65): three sides in the order they come, a side that comes back after
\* another, and tracks without a position (the empty string)
SidePatterns ==
    { << <<65>>, <<66>>, <<67>> >>,
      << <<65>>, <<66>>, <<65>> >>,
      << <<65>>, <<>>, <<66>> >> }

\* n[i] tracks of side p[i], for i = 1, 2, 3, each numbered "1" on its side
Runs(p, n) ==
    [k \in 1..(n[1] + n[2] + n[3]) |->
        LET side == IF k <= n[1] THEN p[1]
                    ELSE IF k <= n[1] + n[2] THEN p[2] ELSE p[3]
        IN  Track(IF side = <<>> THEN <<>> ELSE side \o <<49>>)]

Tracklists == {Runs(p, n) : p \in SidePatterns, n \in [1..3 -> 0..MaxRun]}

\* the keys a collection can hold: two records of artist 1, one of artist 2
Keys == {<<1, 1>>, <<1, 2>>, <<2, 1>>}

----------------------------------------------------------------------------
(* The state machine *)

\* nothing has been written to the terminal
NoTerminal == surface = <<>> /\ position = None /\ tracklist = <<>>

\* no App has been constructed
NoApp ==
    /\ collection = {} /\ sorted_titles = <<>> /\ selected = 0
    /\ user_data = FALSE /\ raw_mode = FALSE /\ pc = "none"
    /\ debug_build = FALSE

Init ==
    /\ WIDTH \in 1..MaxW
    /\ HEIGHT \in 1..MaxH
    /\ image = None
    /\ art = None
    /\ wire = None
    /\ saved = None
    /\ op = "init"
    /\ result = "none"
    /\ pixels_read = 0
    /\ NoTerminal
    /\ NoApp

\* the example scenario: the grid of a Record, AsciiArt<45, 20>
InitScenario ==
    /\ WIDTH = RecordWidth
    /\ HEIGHT = RecordHeight
    /\ image = None
    /\ art = None
    /\ wire = None
    /\ saved = None
    /\ op = "init"
    /\ result = "none"
    /\ pixels_read = 0
    /\ NoTerminal
    /\ NoApp

\* image::load_from_memory hands over a decoded raster (record.rs:100)
LoadImage(images) ==
    /\ op = "init"
    /\ \E img \in images : image' = Some(img)
    /\ op' = "load_image"
    /\ UNCHANGED <<WIDTH, HEIGHT, art, wire, saved, result, pixels_read>>
    /\ UNCHANGED <<termVars, appVars>>

\* AsciiArt::<WIDTH, HEIGHT>::from_image(image) (record.rs:121)
FromImage ==
    /\ op = "load_image"
    /\ \E overflow_checks \in BOOLEAN :
          \E r \in {from_image(image[1], WIDTH, HEIGHT, overflow_checks)} :
              /\ art' = r.art
              /\ result' = r.status
              /\ pixels_read' = r.nread
    /\ op' = "from_image"
    /\ UNCHANGED <<WIDTH, HEIGHT, image, wire, saved>>
    /\ UNCHANGED <<termVars, appVars>>

\* blank_art::<WIDTH, HEIGHT>()
BlankArt ==
    /\ op = "init"
    /\ art' = Some(blank_art(WIDTH, HEIGHT))
    /\ result' = "ok"
    /\ op' = "blank_art"
    /\ UNCHANGED <<WIDTH, HEIGHT, image, wire, saved, pixels_read>>
    /\ UNCHANGED <<termVars, appVars>>

\* art.serialize(serializer): the grid in memory is written out
Serialize ==
    /\ op \in {"from_image", "blank_art", "deserialize"}
    /\ result = "ok"
    /\ wire' = Some(serialize(art[1]))
    /\ saved' = art
    /\ op' = "serialize"
    /\ UNCHANGED <<WIDTH, HEIGHT, image, art, result, pixels_read>>
    /\ UNCHANGED <<termVars, appVars>>

\* a persisted sequence is read from the collection file (record.rs:42)
ReadFile ==
    /\ op = "init"
    /\ \E input \in FileInputs(WIDTH, HEIGHT) : wire' = Some(input)
    /\ op' = "read_file"
    /\ UNCHANGED <<WIDTH, HEIGHT, image, art, saved, result, pixels_read>>
    /\ UNCHANGED <<termVars, appVars>>

\* AsciiArt::deserialize -> deserializer.deserialize_seq(AsciiArtVisitor)
Deserialize ==
    /\ op \in {"serialize", "read_file"}
    /\ \E r \in {visit_seq(wire[1], WIDTH, HEIGHT)} :
           /\ art' = r.art
           /\ result' = r.status
    /\ op' = "deserialize"
    /\ UNCHANGED <<WIDTH, HEIGHT, image, wire, saved, pixels_read>>
    /\ UNCHANGED <<termVars, appVars>>

Next ==
    \/ LoadImage(Images)
    \/ FromImage
    \/ BlankArt
    \/ Serialize
    \/ ReadFile
    \/ Deserialize

Spec == Init /\ [][Next]_vars

NextScenario ==
    \/ LoadImage(ScenarioImages)
    \/ FromImage
    \/ Serialize
    \/ Deserialize

SpecScenario == InitScenario /\ [][NextScenario]_vars

----------------------------------------------------------------------------
(* The renderer's state machine: a grid in memory is printed once *)

InitRender ==
    /\ WIDTH \in 1..MaxW
    /\ HEIGHT \in 1..MaxH
    /\ art \in {Some(g) : g \in Grids(WIDTH, HEIGHT)}
    /\ image = None /\ wire = None /\ saved = None /\ pixels_read = 0
    /\ op = "init"
    /\ result = "none"
    /\ NoTerminal
    /\ collection = {} /\ sorted_titles = <<>> /\ selected = 0
    /\ user_data = FALSE /\ raw_mode = FALSE /\ pc = "none"
    /\ debug_build \in BOOLEAN

\* the pass r meets stdout: each queue! may return an I/O error, after which
\* nothing more is written (the ? returns); so may the final flush
Written(r) ==
    \E n \in 0..Len(r.out), flushed \in BOOLEAN :
        /\ surface' = SubSeq(r.out, 1, n)
        /\ result' = IF n < Len(r.out) THEN "err"
                     ELSE IF r.status = "panic" THEN "panic"
                     ELSE IF flushed THEN "ok" ELSE "err"

\* art.print()
PrintGrid ==
    /\ op = "init"
    /\ \E r \in {print(art[1])} : Written(r)
    /\ op' = "print"
    /\ UNCHANGED <<artVars, position, tracklist, appVars>>

\* art.print_at(position)
PrintGridAt ==
    /\ op = "init"
    /\ \E pos \in AnchorCols \X AnchorRows :
          /\ position' = Some(pos)
          /\ \E r \in {print_at(art[1], pos, debug_build)} : Written(r)
    /\ op' = "print_at"
    /\ UNCHANGED <<artVars, tracklist, appVars>>

NextRender ==
    \/ PrintGrid
    \/ PrintGridAt

SpecRender == InitRender /\ [][NextRender]_vars

----------------------------------------------------------------------------
(* The tracklist printer's state machine *)

InitTracklist ==
    /\ WIDTH = RecordWidth /\ HEIGHT = RecordHeight
    /\ image = None /\ art = None /\ wire = None /\ saved = None
    /\ pixels_read = 0
    /\ op = "init"
    /\ result = "none"
    /\ surface = <<>> /\ position = None
    /\ tracklist \in Tracklists
    /\ NoApp

\* each execute!(stdout(), MoveTo(..))? may return an I/O error, which ends
\* the pass before that move
Executed(r) ==
    \E n \in {Len(r.out)} \cup {k - 1 : k \in {j \in 1..Len(r.out) : r.out[j].cmd = "MoveTo"}} :
        /\ surface' = SubSeq(r.out, 1, n)
        /\ result' = IF n < Len(r.out) THEN "err" ELSE r.status

\* print_tracklist(20, record) (app.rs:208)
PrintTracklist ==
    /\ op = "init"
    /\ \E r \in {print_tracklist(TracklistStart, tracklist)} : Executed(r)
    /\ op' = "print_tracklist"
    /\ UNCHANGED <<artVars, position, tracklist, appVars>>

NextTracklist == PrintTracklist

SpecTracklist == InitTracklist /\ [][NextTracklist]_vars

----------------------------------------------------------------------------
(* The application's state machine.  pc is where the program waits for     *)
(* input: "run" (the event read of the run loop), "command" and the other   *)
(* line reads, the waits for Enter, and "exit" once run has returned or the *)
(* program has panicked.                                                    *)

InitApp ==
    /\ WIDTH = RecordWidth /\ HEIGHT = RecordHeight
    /\ image = None /\ art = None /\ wire = None /\ saved = None
    /\ pixels_read = 0
    /\ NoTerminal
    /\ collection \in SUBSET Keys
    /\ sorted_titles = sorted_keys(collection)
    /\ selected = 0
    /\ user_data \in BOOLEAN
    /\ raw_mode = TRUE
    /\ pc = "run"
    /\ debug_build \in BOOLEAN
    /\ op = "init"
    /\ result = "ok"

\* command_mode returns to run: Ok resumes the loop, Err ends run (the ?)
Returns(status) ==
    /\ op' = "command_mode"
    /\ result' = status
    /\ pc' = IF status = "ok" THEN "run" ELSE "exit"

\* a panic in o ends the program
Faults(o) == op' = o /\ result' = "panic" /\ pc' = "exit"

\* o goes on to wait for input at to
Goes(o, to) == op' = o /\ result' = "ok" /\ pc' = to

\* print_content indexes sorted_titles[selected] when the list is not empty
PrintFaults == Len(sorted_titles) # 0 /\ selected >= Len(sorted_titles)

\* self.print()? at the top of the loop: an I/O error, or the index panic
PrintFails ==
    /\ pc = "run"
    /\ \E status \in {"err"} \cup (IF PrintFaults THEN {"panic"} ELSE {}) :
          /\ op' = "print" /\ result' = status /\ pc' = "exit"
    /\ UNCHANGED <<collection, sorted_titles, selected, user_data, raw_mode,
                   debug_build, artVars, termVars>>

\* KeyCode::Up
KeyUp ==
    /\ pc = "run" /\ ~PrintFaults
    /\ selected' = saturating_sub_one(selected)
    /\ Goes("up", "run")
    /\ UNCHANGED <<collection, sorted_titles, user_data, raw_mode,
                   debug_build, artVars, termVars>>

\* KeyCode::Down: collection.len() - 1 is a usize subtraction
KeyDown ==
    /\ pc = "run" /\ ~PrintFaults
    /\ selected < MaxSelected
    /\ IF Cardinality(collection) = 0 /\ debug_build
       THEN Faults("down") /\ UNCHANGED selected
       ELSE /\ selected' = min(selected + 1,
                               wrapping_sub_one(Cardinality(collection)))
            /\ Goes("down", "run")
    /\ UNCHANGED <<collection, sorted_titles, user_data, raw_mode,
                   debug_build, artVars, termVars>>

\* KeyCode::Char('q'): run returns Ok and main calls quit
KeyQuit ==
    /\ pc = "run" /\ ~PrintFaults
    /\ raw_mode' = FALSE
    /\ \E status \in {"ok", "err"} :
          op' = "quit" /\ result' = status /\ pc' = "exit"
    /\ UNCHANGED <<collection, sorted_titles, selected, user_data,
                   debug_build, artVars, termVars>>

\* KeyCode::Char('c'): command_mode up to its read_line
KeyCommand ==
    /\ pc = "run" /\ ~PrintFaults
    /\ \/ Returns("err") /\ UNCHANGED raw_mode
       \/ Goes("key_c", "command") /\ raw_mode' = FALSE
    /\ UNCHANGED <<collection, sorted_titles, selected, user_data,
                   debug_build, artVars, termVars>>

\* std::io::stdin().read_line(&mut command)? returns Err
ReadCommandFails ==
    /\ pc = "command"
    /\ Returns("err")
    /\ UNCHANGED <<collection, sorted_titles, selected, user_data, raw_mode,
                   debug_build, artVars, termVars>>

\* the end of command_mode: enable_raw_mode()?, execute!(Hide)?
Resumes ==
    /\ raw_mode' = TRUE
    /\ \E status \in {"ok", "err"} : Returns(status)

\* a command that is none of Login, Add, Remove
CommandOther ==
    /\ pc = "command"
    /\ Resumes
    /\ UNCHANGED <<collection, sorted_titles, selected, user_data,
                   debug_build, artVars, termVars>>

\* "Login": login up to the read_line of authenticate; execute!(..)? may
\* return Err, authenticate(..).unwrap() panics if the request fails
CommandLogin ==
    /\ pc = "command"
    /\ \/ Returns("err")
       \/ Faults("login")
       \/ Goes("login", "login_code")
    /\ UNCHANGED <<collection, sorted_titles, selected, user_data, raw_mode,
                   debug_build, artVars, termVars>>

\* the code is read; authenticate enables raw mode and makes its second
\* request; login saves the tokens and waits for Enter
LoginCode ==
    /\ pc = "login_code"
    /\ raw_mode' = TRUE
    /\ \/ Faults("login") /\ UNCHANGED user_data
       \/ Returns("err") /\ user_data' \in {user_data, TRUE}
       \/ Goes("login", "login_enter") /\ user_data' = TRUE
    /\ UNCHANGED <<collection, sorted_titles, selected,
                   debug_build, artVars, termVars>>

\* "Add": add_record up to its first wait: the Enter of the "not logged in"
\* notice, or the artist's line
CommandAdd ==
    /\ pc = "command"
    /\ \/ Returns("err")
       \/ Goes("add_record", IF user_data THEN "add_artist" ELSE "add_notice")
    /\ UNCHANGED <<collection, sorted_titles, selected, user_data, raw_mode,
                   debug_build, artVars, termVars>>

\* the artist is read (read_line(..).unwrap())
AddArtist ==
    /\ pc = "add_artist"
    /\ \/ Faults("add_record")
       \/ Goes("add_record", "add_album")
    /\ UNCHANGED <<collection, sorted_titles, selected, user_data, raw_mode,
                   debug_build, artVars, termVars>>

\* the album is read, raw mode enabled, the release fetched and added under
\* its key
AddAlbum ==
    /\ pc = "add_album"
    /\ raw_mode' = TRUE
    /\ \/ /\ Faults("add_record")
          /\ UNCHANGED <<collection, sorted_titles, selected>>
       \/ /\ Returns("err")
          /\ UNCHANGED <<collection, sorted_titles, selected>>
       \/ \E key \in Keys :
             IF Len(sorted_titles) # 0 /\ selected >= Len(sorted_titles)
             THEN /\ Faults("add_record")
                  /\ UNCHANGED <<collection, sorted_titles, selected>>
             ELSE /\ selected' =
                        IF Len(sorted_titles) # 0
                              /\ key_gt(sorted_titles[selected + 1], key)
                        THEN selected + 1 ELSE selected
                  /\ collection' = collection \cup {key}
                  /\ sorted_titles' =
                        IF key \in collection THEN sorted_titles
                        ELSE sort(Append(sorted_titles, key))
                  /\ \/ Returns("err")
                     \/ Goes("add_record", "add_enter")
    /\ UNCHANGED <<user_data, debug_build, artVars, termVars>>

\* "Remove": remove_selected up to its read_line; the prompt indexes
\* sorted_titles[selected]
CommandRemove ==
    /\ pc = "command"
    /\ IF selected >= Len(sorted_titles)
       THEN Faults("remove_selected")
       ELSE \/ Returns("err")
            \/ Goes("remove_selected", "remove_response")
    /\ UNCHANGED <<collection, sorted_titles, selected, user_data, raw_mode,
                   debug_build, artVars, termVars>>

\* the response is read and raw mode enabled; "y", "yes", "Y" or "Yes"
\* confirms
RemoveResponse ==
    /\ pc = "remove_response"
    /\ raw_mode' = TRUE
    /\ \/ /\ collection' = collection \ {sorted_titles[selected + 1]}
          /\ sorted_titles' = remove(sorted_titles, selected)
          /\ IF Len(sorted_titles) = 1 /\ debug_build
             THEN Faults("remove_confirmed") /\ UNCHANGED selected
             ELSE /\ selected' = min(selected,
                                     wrapping_sub_one(Len(sorted_titles) - 1))
                  /\ \/ Returns("err")
                     \/ Goes("remove_confirmed", "remove_enter")
       \/ /\ UNCHANGED <<collection, sorted_titles, selected>>
          /\ \/ Returns("err")
             \/ Goes("remove_declined", "remove_enter")
    /\ UNCHANGED <<user_data, debug_build, artVars, termVars>>

\* wait_for_enter()? at the end of a handler, then the end of command_mode
WaitForEnter ==
    /\ pc \in {"login_enter", "add_notice", "add_enter", "remove_enter"}
    /\ \/ Returns("err") /\ UNCHANGED raw_mode
       \/ Resumes
    /\ UNCHANGED <<collection, sorted_titles, selected, user_data,
                   debug_build, artVars, termVars>>

NextApp ==
    \/ PrintFails
    \/ KeyUp
    \/ KeyDown
    \/ KeyQuit
    \/ KeyCommand
    \/ ReadCommandFails
    \/ CommandOther
    \/ CommandLogin
    \/ LoginCode
    \/ CommandAdd
    \/ AddArtist
    \/ AddAlbum
    \/ CommandRemove
    \/ RemoveResponse
    \/ WaitForEnter

SpecApp == InitApp /\ [][NextApp]_vars

----------------------------------------------------------------------------
(* Properties *)

Cells(W, H) == (1..W) \X (1..H)

\* the raster is at least as large as the grid on both axes
CoversGrid == image[1].width >= WIDTH /\ image[1].height >= HEIGHT

Uniform(img) ==
    \A y \in 1..img.height : \A x \in 1..img.width : img.pix[y][x] = img.pix[1][1]

\* the wire came from a file, and row r of it holds n cells
FromFile == op = "deserialize" /\ saved = None
RowLen(r) == Len(wire[1][r].row)

\* C1: round trip.  Whenever a grid G has been serialized and the result is
\* deserialized, deserialization succeeds and yields G: every cell's glyph
\* and three colour channels are those of G.
C1_RoundTrip ==
    (op = "deserialize" /\ saved # None) => (result = "ok" /\ art = saved)

C1_Witness ==
    /\ op = "deserialize" /\ saved # None /\ result = "ok"
    /\ WIDTH = 2 /\ HEIGHT = 2
    /\ art[1].data[1][1] = Textel(120, <<1, 2, 3>>)
    /\ art[1].data[2][1] = Textel(Space, Black)

\* C2: a uniform source image of colour C, at least W wide and H high,
\* converts to a grid every cell of which has colour C exactly.
C2_UniformImage ==
    (op = "from_image" /\ CoversGrid /\ Uniform(image[1])) =>
        /\ result = "ok"
        /\ \A c \in Cells(WIDTH, HEIGHT) :
              art[1].data[c[2]][c[1]].color = image[1].pix[1][1]

C2_Witness ==
    /\ op = "from_image" /\ result = "ok" /\ Uniform(image[1])
    /\ image[1].pix[1][1] = <<255, 128, 7>>
    /\ image[1].width >= 3 * WIDTH
    /\ art[1].data[1][1].color = <<255, 128, 7>>

\* C3: every grid value that exists (made by blank_art, by from_image or by
\* deserialization, of fewer than H rows included) has exactly H rows of
\* exactly W cells, in every state.
C3_FixedDimensions ==
    /\ art # None => HasShape(art[1], WIDTH, HEIGHT)
    /\ saved # None => HasShape(saved[1], WIDTH, HEIGHT)

C3_Witness ==
    /\ FromFile /\ result = "ok" /\ art # None
    /\ Len(wire[1]) < HEIGHT
    /\ WIDTH # HEIGHT

\* C5: blank_art returns W x H cells, each the space glyph with colour
\* (0, 0, 0), for every W and H.
C5_BlankArt ==
    op = "blank_art" =>
        /\ Len(art[1].data) = HEIGHT
        /\ \A y \in 1..HEIGHT :
              /\ Len(art[1].data[y]) = WIDTH
              /\ \A x \in 1..WIDTH : art[1].data[y][x] = Textel(Space, Black)

C5_Witness == op = "blank_art" /\ art # None /\ WIDTH = 2 /\ HEIGHT = 1

\* C6: a source image of exactly W x H pixels converts without fault, the 9
\* sample coordinates of cell (x, y) all being (x, y), and the colour of
\* cell (x, y) is the colour of pixel (x, y).
C6_OnePixelPerCell ==
    (op = "from_image" /\ image[1].width = WIDTH /\ image[1].height = HEIGHT) =>
        /\ result = "ok"
        /\ \A c \in Cells(WIDTH, HEIGHT) :
              /\ \A k \in 1..9 :
                    sample_coords(c[1] - 1, c[2] - 1,
                        pix_tex_ratio_of(image[1], WIDTH, HEIGHT))[k]
                      = <<c[1] - 1, c[2] - 1>>
              /\ art[1].data[c[2]][c[1]].color = image[1].pix[c[2]][c[1]]

C6_Witness ==
    /\ op = "from_image" /\ result = "ok"
    /\ WIDTH = 2 /\ HEIGHT = 2
    /\ image[1].width = 2 /\ image[1].height = 2
    /\ image[1].pix[1][2] # image[1].pix[2][1]
    /\ art[1].data[1][2].color = image[1].pix[1][2]

\* C7: deserializing a persisted sequence in which some row holds W - 1 or
\* W + 1 cells returns a decode error.
C7_BadRowIsError ==
    (FromFile /\ \E r \in 1..Len(wire[1]) : RowLen(r) # WIDTH) => result = "err"

\* the scenario rasters: 90 x 60, black and white, bw x bh blocks
BlackWhite(bw, bh) ==
    {Checkerboard(2 * RecordWidth, 3 * RecordHeight, bw, bh, Black, White),
     Checkerboard(2 * RecordWidth, 3 * RecordHeight, bw, bh, White, Black)}

\* the cells alternate exactly between the raster's two colours, starting
\* with the colour of its top left pixel
Alternates ==
    /\ result = "ok"
    /\ \A c \in Cells(WIDTH, HEIGHT) :
          art[1].data[c[2]][c[1]].color =
              IF (c[1] + c[2]) % 2 = 0 THEN image[1].pix[1][1]
              ELSE (IF image[1].pix[1][1] = Black THEN White ELSE Black)

\* C8 as stated: a 90 x 60 checkerboard of black and white 2 x 2 pixel
\* blocks, sampled to 45 x 20, gives cells alternating exactly between
\* (0, 0, 0) and (255, 255, 255).
C8_Original ==
    (op = "from_image" /\ image[1] \in BlackWhite(2, 2)) => Alternates

\* C8, amended: a 90 x 60 checkerboard of black and white blocks 2 pixels
\* wide and 3 high (one block per cell footprint), sampled to 45 x 20, gives
\* cells alternating exactly between (0, 0, 0) and (255, 255, 255).
C8_CheckerboardOfFootprints ==
    (op = "from_image" /\ image[1] \in BlackWhite(2, 3)) => Alternates

C8_Witness ==
    /\ op = "from_image" /\ result = "ok"
    /\ image[1] \in BlackWhite(2, 3)
    /\ art[1].data[1][1].color = Black
    /\ art[1].data[1][2].color = White
    /\ art[1].data[2][1].color = White

\* C9: a source image smaller than the grid on either axis makes from_image
\* return an error before any pixel is read, and no grid.
C9_SmallImageIsError ==
    (op = "from_image" /\ ~CoversGrid) =>
        (result = "err" /\ pixels_read = 0 /\ art = None)

\* C10: deserializing k < H well-formed rows yields a grid whose rows
\* 0..k-1 are the rows read, in order, and whose rows k..H-1 are blank.
C10_ShortSequence ==
    (/\ FromFile
     /\ Len(wire[1]) < HEIGHT
     /\ \A r \in 1..Len(wire[1]) : RowLen(r) = WIDTH) =>
        /\ result = "ok"
        /\ \A c \in Cells(WIDTH, HEIGHT) :
              art[1].data[c[2]][c[1]] =
                  IF c[2] <= Len(wire[1])
                  THEN Textel(wire[1][c[2]].row[c[1]].char[1],
                              wire[1][c[2]].row[c[1]].color)
                  ELSE Textel(Space, Black)

C10_Witness ==
    /\ FromFile /\ result = "ok"
    /\ WIDTH = 2 /\ HEIGHT = 2 /\ Len(wire[1]) = 1
    /\ art[1].data[1][2] = Textel(120, <<1, 2, 3>>)
    /\ art[1].data[1][1] = Textel(Space, Black)
    /\ art[1].data[2][2] = Textel(Space, Black)

\* C11: serializing a grid emits exactly H row-records in top-to-bottom
\* order, each holding exactly W cells in left-to-right order: the c-th cell
\* of the r-th record carries the glyph and the three colour bytes of the
\* grid cell at row r, column c.
C11_SerializedShape ==
    op = "serialize" =>
        /\ Len(wire[1]) = HEIGHT
        /\ \A r \in 1..HEIGHT :
              /\ Len(wire[1][r].row) = WIDTH
              /\ \A c \in 1..WIDTH :
                    /\ wire[1][r].row[c].char = <<art[1].data[r][c].char>>
                    /\ Len(wire[1][r].row[c].color) = 3
                    /\ \A k \in 1..3 :
                          wire[1][r].row[c].color[k] = art[1].data[r][c].color[k]

C11_Witness ==
    /\ op = "serialize"
    /\ WIDTH = 2 /\ HEIGHT = 2
    /\ art[1].data[1][2] = Textel(120, <<1, 2, 3>>)
    /\ art[1].data[2][1] = Textel(Space, Black)
    /\ wire[1][1].row[2].char = <<120>>

\* the sum of channel k over the 9 pixels at (x * rx + dx, y * ry + dy),
\* dx in {0, (rx - 1) / 2, rx - 1} and dy in {0, (ry - 1) / 2, ry - 1}
NineSum(img, x, y, rx, ry, k) ==
    LET dx == <<0, (rx - 1) \div 2, rx - 1>>
        dy == <<0, (ry - 1) \div 2, ry - 1>>
        px(i, j) == img.pix[y * ry + dy[j] + 1][x * rx + dx[i] + 1][k]
    IN  px(1, 1) + px(2, 1) + px(3, 1) + px(1, 2) + px(2, 2) + px(3, 2)
            + px(1, 3) + px(2, 3) + px(3, 3)

\* C14: for ratios rx = width / W >= 1 and ry = height / H >= 1, cell (x, y)
\* of from_image's grid has the solid block glyph and, per channel, the
\* colour floor(S / 9), S the sum of the channel over the 9 sampled pixels.
C14_NineSampleAverage ==
    (op = "from_image" /\ CoversGrid) =>
        /\ result = "ok"
        /\ \A c \in Cells(WIDTH, HEIGHT) :
              /\ art[1].data[c[2]][c[1]].char = FullBlock
              /\ \A k \in 1..3 :
                    art[1].data[c[2]][c[1]].color[k] =
                        NineSum(image[1], c[1] - 1, c[2] - 1,
                                image[1].width \div WIDTH,
                                image[1].height \div HEIGHT, k) \div 9

C14_Witness ==
    /\ op = "from_image" /\ result = "ok"
    /\ WIDTH = 1 /\ HEIGHT = 1
    /\ image[1].width = 3 /\ image[1].height = 3
    /\ image[1].pix[2][2] = <<255, 128, 7>>
    /\ image[1].pix[1][1] = Black
    /\ art[1].data[1][1].color \notin {Black, <<255, 128, 7>>}

\* C20: for every sequence of well-formed row-records, of any length,
\* deserialization ends with a grid of H rows of W cells or with a decode
\* error; it never faults.
C20_AnyLengthNoFault ==
    (FromFile /\ \A r \in 1..Len(wire[1]) : RowLen(r) = WIDTH) =>
        \/ result = "ok" /\ HasShape(art[1], WIDTH, HEIGHT)
        \/ result = "err"

\* a render pass has run
Rendering == op \in {"print", "print_at"}

\* what a pass writes apart from cursor moves and line ends
IsPaint(c) ==
    /\ c.cmd # "MoveTo"
    /\ ~(c.cmd = "Print" /\ c.arg = <<NewLine>>)

\* the k-th paint command of a pass over grid a: the background, then per
\* row the (colour, glyph) pair of every cell and a reset
Paint(a, W, k) ==
    IF k = 1 THEN Command("SetBackgroundColor", <<>>)
    ELSE LET r == (k - 2) \div (2 * W + 1) + 1
             j == ((k - 2) % (2 * W + 1)) + 1
         IN  IF j = 2 * W + 1 THEN Command("ResetColor", <<>>)
             ELSE IF j % 2 = 1
                  THEN Command("SetForegroundColor", a.data[r][(j + 1) \div 2].color)
                  ELSE Command("Print", <<a.data[r][j \div 2].char>>)

\* C12: in one render pass (print or print_at) the commands written are:
\* the background colour set once, first; then row by row from the top, cell
\* by cell from the left, the cell's foreground colour immediately followed
\* by its glyph; and a colour reset after the last cell of each row, before
\* anything of the next row.  A pass that stops early has written a prefix
\* of that sequence; a pass that returns Ok has written all of it.
C12_RenderSequence ==
    Rendering =>
        LET paint == SelectSeq(surface, IsPaint)
            total == 1 + HEIGHT * (2 * WIDTH + 1)
        IN  /\ Len(paint) <= total
            /\ \A k \in 1..Len(paint) : paint[k] = Paint(art[1], WIDTH, k)
            /\ result = "ok" => Len(paint) = total
            /\ \A k \in 1..(Len(surface) - 1) :
                  surface[k].cmd = "SetForegroundColor" =>
                      /\ surface[k + 1].cmd = "Print"
                      /\ surface[k + 1].arg # <<NewLine>>
            /\ \A k \in 2..Len(surface) :
                  /\ surface[k].cmd # "SetBackgroundColor"
                  /\ surface[k].cmd = "MoveTo" =>
                        surface[k - 1].cmd \in {"SetBackgroundColor", "ResetColor"}

C12_Witness ==
    /\ op = "print_at" /\ result = "ok"
    /\ WIDTH = 2 /\ HEIGHT = 2
    /\ art[1].data[1][2] = Textel(120, <<1, 2, 3>>)
    /\ art[1].data[2][1] = Textel(FullBlock, <<255, 128, 7>>)
    /\ art[1].data[1][1] = Textel(FullBlock, <<255, 128, 7>>)
    /\ Len(surface) = 13
    /\ surface[5] = Command("SetForegroundColor", <<1, 2, 3>>)
    /\ surface[7].cmd = "ResetColor"

\* the number of cursor moves among the first k commands written
MovesBefore(k) ==
    Cardinality({j \in 1..(k - 1) : surface[j].cmd = "MoveTo"})

\* C13: print_at with anchor (c, r) moves the cursor to (c, r + i) before
\* the cells of grid row i, for every 16-bit anchor; it fails only with an
\* I/O error, and r + i neither faults nor wraps.
C13_AnchorRowExact ==
    op = "print_at" =>
        /\ result \in {"ok", "err"}
        /\ \A k \in 1..Len(surface) :
              surface[k].cmd = "MoveTo" =>
                  surface[k].arg = <<position[1][1], position[1][2] + MovesBefore(k)>>

\* C18: print_tracklist returns for every tracklist and draws at most 15
\* rows: every cursor move it issues targets a row in
\* [start_row, start_row + 14].
C18_FifteenRows ==
    op = "print_tracklist" =>
        \A k \in 1..Len(surface) :
            surface[k].cmd = "MoveTo" =>
                /\ surface[k].arg[2] >= TracklistStart
                /\ surface[k].arg[2] <= TracklistStart + 14

\* C15: in the run loop, after Up and Down key events the selected index
\* stays within the collection (0 for the empty collection) and no key
\* event faults, for every collection size.
C15_SelectionInBounds ==
    op \in {"up", "down"} =>
        /\ result = "ok"
        /\ IF collection = {} THEN selected = 0
           ELSE selected < Cardinality(collection)

\* C16: add_record leaves the selection on the same record: whatever key is
\* added, new or already present, sorted_titles[selected] after the addition
\* is the pair that was selected before it.
C16_AddKeepsSelection ==
    [][(pc = "add_album" /\ pc' = "add_enter" /\ Len(sorted_titles) # 0) =>
          /\ selected' < Len(sorted_titles')
          /\ sorted_titles'[selected' + 1] = sorted_titles[selected + 1]]_vars

\* C17: a confirmed remove_selected on a non-empty collection removes the
\* selected key from collection and sorted_titles, leaves every other record
\* in place and selected at most sorted_titles.len() - 1, without fault; a
\* declined removal changes none of the three.
C17_RemoveSelected ==
    [][/\ (pc = "remove_response" /\ op' = "remove_confirmed") =>
            /\ result' = "ok"
            /\ collection' = collection \ {sorted_titles[selected + 1]}
            /\ Len(sorted_titles') = Len(sorted_titles) - 1
            /\ \A k \in 1..Len(sorted_titles') :
                  sorted_titles'[k] =
                      sorted_titles[IF k <= selected THEN k ELSE k + 1]
            /\ Len(sorted_titles') # 0 => selected' <= Len(sorted_titles') - 1
       /\ (pc = "remove_response" /\ op' = "remove_declined") =>
            UNCHANGED <<collection, sorted_titles, selected>>]_vars

\* the program waits for a line of input (read_line)
Typing == pc \in {"command", "login_code", "add_artist", "add_album",
                  "remove_response"}

\* the program is inside a command handler
InHandler == pc \in {"login_code", "login_enter", "add_notice", "add_artist",
                     "add_album", "add_enter", "remove_response",
                     "remove_enter"}

\* C19: raw mode is restored around command mode: whenever command_mode
\* returns to the run loop from a command handler, with Ok or with Err, raw
\* mode is enabled; and while the program runs raw mode is disabled only
\* while the user types a line of input.
C19_RawModeRestored ==
    /\ [][(InHandler /\ op' = "command_mode") => raw_mode']_vars
    /\ []((pc # "exit" /\ ~raw_mode) => Typing)

\* the raster img with pixel (px, py) set to color
WithPixel(img, px, py, color) == [img EXCEPT !.pix[py + 1][px + 1] = color]

\* pixel (px, py) lies in the footprint of cell (x, y):
\* [x * rx, (x + 1) * rx) x [y * ry, (y + 1) * ry)
InFootprint(px, py, x, y, ratio) ==
    /\ x * ratio[1] <= px /\ px < (x + 1) * ratio[1]
    /\ y * ratio[2] <= py /\ py < (y + 1) * ratio[2]

\* C21: for every image of width >= W and height >= H, every coordinate
\* from_image reads lies inside the image and inside the footprint of the
\* cell it is read for, all 9 * W * H reads return, and changing a pixel
\* outside a cell's footprint does not change that cell.
C21_ReadsOwnFootprint ==
    (op = "from_image" /\ CoversGrid) =>
        LET ratio == pix_tex_ratio_of(image[1], WIDTH, HEIGHT)
        IN  /\ result = "ok"
            /\ pixels_read = 9 * WIDTH * HEIGHT
            /\ \A c \in Cells(WIDTH, HEIGHT) :
                  /\ \A k \in 1..9 :
                        LET at == sample_coords(c[1] - 1, c[2] - 1, ratio)[k]
                        IN  /\ 0 <= at[1] /\ at[1] < image[1].width
                            /\ 0 <= at[2] /\ at[2] < image[1].height
                            /\ InFootprint(at[1], at[2], c[1] - 1, c[2] - 1, ratio)
                  /\ \A px \in 0..(image[1].width - 1),
                        py \in 0..(image[1].height - 1) :
                        ~InFootprint(px, py, c[1] - 1, c[2] - 1, ratio) =>
                            \A color \in PixelColors \ {image[1].pix[py + 1][px + 1]} :
                                sample_at(c[1] - 1, c[2] - 1, ratio,
                                          WithPixel(image[1], px, py, color),
                                          FALSE).textel
                                    = art[1].data[c[2]][c[1]]

C21_Witness ==
    /\ op = "from_image" /\ result = "ok"
    /\ WIDTH = 2 /\ HEIGHT = 1
    /\ image[1].width = 4 /\ image[1].height = 2
    /\ image[1].pix[1][1] = Black /\ image[1].pix[1][2] = Black
    /\ image[1].pix[2][1] = Black /\ image[1].pix[2][2] = Black
    /\ image[1].pix[1][3] = <<255, 128, 7>>
    /\ art[1].data[1][1].color = Black
    /\ art[1].data[1][2].color # Black
    /\ pixels_read = 18

\* C22: in every state reached from App::init by Up, Down, Add and confirmed
\* or declined Remove, whenever sorted_titles is not empty selected is below
\* sorted_titles.len() and the selected key is in collection, so the lookups
\* of print_content never fault.
C22_SelectedInRange ==
    /\ Len(sorted_titles) # 0 =>
          /\ selected < Len(sorted_titles)
          /\ sorted_titles[selected + 1] \in collection
    /\ ~(op = "print" /\ result = "panic")

====
